---- MODULE Spec2Model ----
(***************************************************************************)
(* The contribution-graph filler: fill_contributions_graph (main.py) walks *)
(* the calendar days of a window, decides a commit count per day and calls *)
(* make_commit (git_operations.py) once per commit intent, then pushes.    *)
(*                                                                         *)
(* Calendar days are day numbers counted from 2024-01-01, a Monday, so     *)
(* datetime.weekday() of day d is d % 7.  A datetime is a record of its    *)
(* day number and its time-of-day fields.                                  *)
(***************************************************************************)
EXTENDS Integers, Sequences, FiniteSets, TLC

\* ---------------------------------------------------------------- bounds
\* the window holds at most MaxSpan calendar days (and may be empty)
MaxSpan == 2
\* min_commits_per_day and max_commits_per_day range over -1..MaxCommits
MaxCommits == 2
\* at most MaxFaults make_commit calls of one run fail
MaxFaults == 1
\* at most MaxRepeats file-name draws of one run repeat an earlier name
MaxRepeats == 1

\* ------------------------------------------------------ program constants
HourLo == 9
HourHi == 20
MinuteHi == 59
SecondHi == 59
NameLo == 1000
NameHi == 9999
FirstWeekendDay == 5

\* the start dates tried: 2024-01-05 to 2024-01-07, Friday to Sunday
StartDays == 4 .. 6
FirstStart == CHOOSE d \in StartDays : \A e \in StartDays : d <= e

\* Python's None where a datetime or a record is expected
None == [none |-> TRUE]

\* an absent or empty GITHUB_TOKEN: falsy in "if auto_push and token"
NoToken == ""

\* ------------------------------------------------------------- datetimes
DateTime(d, h, m, s, us) ==
    [day |-> d, hour |-> h, minute |-> m, second |-> s, microsecond |-> us]

\* datetime.strptime(date_str, "%Y-%m-%d"): midnight of the day
parse_date(d) == DateTime(d, 0, 0, 0, 0)

weekday(dt) == dt.day % 7

\* current_date += timedelta(days=1)
AddDay(dt) == [dt EXCEPT !.day = @ + 1]

\* current_date.replace(hour=hour, minute=minute, second=second)
Replace(dt, h, m, s) == [dt EXCEPT !.hour = h, !.minute = m, !.second = s]

\* datetime comparison, field by field
DateLess(a, b) ==
    \/ a.day < b.day
    \/ a.day = b.day /\ a.hour < b.hour
    \/ a.day = b.day /\ a.hour = b.hour /\ a.minute < b.minute
    \/ a.day = b.day /\ a.hour = b.hour /\ a.minute = b.minute
       /\ a.second < b.second
    \/ a.day = b.day /\ a.hour = b.hour /\ a.minute = b.minute
       /\ a.second = b.second /\ a.microsecond < b.microsecond

DateLeq(a, b) == a = b \/ DateLess(a, b)

\* date.strftime('%Y-%m-%d %H:%M:%S'): the microsecond is not printed
strftime(dt) == <<dt.day, dt.hour, dt.minute, dt.second>>

\* git's reading of a "YYYY-MM-DD HH:MM:SS" date: whole seconds
GitDate(str) == DateTime(str[1], str[2], str[3], str[4], 0)

Max(a, b) == IF a >= b THEN a ELSE b
Min(a, b) == IF a <= b THEN a ELSE b

\* ------------------------------------------------------------- variables
VARIABLES
    config,          \* the configuration mapping handed to the run
    token,           \* the GITHUB_TOKEN argument, NoToken when absent
    pc,              \* position in fill_contributions_graph
    outcome,         \* how far the run got: the check that ended it, or
                     \* "completed" once the closing summary is printed
    push_result,     \* what the push step reported
    current_date, commits_count, i, total_commits, days_processed,
    index,           \* paths staged in the repository's index
    files,           \* artifact files in activity/
    last,            \* the last make_commit call: its date, its result,
                     \* the file it created and the commit it recorded
    calls,           \* number of make_commit calls so far
    faults,          \* number of make_commit calls that returned False
    planned,         \* sum over processed days of the intents of the day
    clamped_sum,     \* sum over processed days of commits_count
    active_days,     \* days for which at least one intent was generated
    attempts,        \* per intent index of the current day: calls made
    day_log,         \* the day the loop last left, with its intent count
    repeats,         \* number of file-name draws that repeated a name
    pushes           \* number of push_changes calls so far

vars == <<config, token, pc, outcome, push_result, current_date, commits_count, i,
          total_commits, days_processed, index, files, last, calls,
          faults, planned, clamped_sum, active_days, attempts, day_log,
          repeats, pushes>>

loopVars == <<current_date, commits_count, i, total_commits, days_processed>>
repoVars == <<index, files>>
\* history variables: they record what the run did and steer nothing
ghostVars == <<last, calls, faults, planned, clamped_sum, active_days,
               attempts, day_log, repeats>>

\* ---------------------------------------------------------- configuration
Patterns == {"random", "weekday", "consistent", "other"}
CommitRange == -1 .. MaxCommits

DefaultConfig ==
    [enabled |-> TRUE, path_exists |-> TRUE, is_git |-> TRUE,
     dates_valid |-> TRUE, start_date |-> 0, end_date |-> 0,
     min_commits_per_day |-> 1, max_commits_per_day |-> MaxCommits,
     activity_pattern |-> "random", weekend_activity |-> TRUE,
     commit_messages |-> <<"Update">>, auto_push |-> TRUE]

\* configurations on which one of the checks before the loop fails
RejectedConfigs ==
    {[DefaultConfig EXCEPT !.enabled = FALSE],
     [DefaultConfig EXCEPT !.path_exists = FALSE],
     [DefaultConfig EXCEPT !.is_git = FALSE],
     [DefaultConfig EXCEPT !.dates_valid = FALSE]}

NoAttempts == [j \in 0 .. MaxCommits |-> 0]

\* The configurations tried: the rejected ones; every window with every
\* weekend_activity under the default counts; every pair of count limits
\* with every pattern and weekend_activity on the window of a Friday and
\* the Saturday after it; every auto_push and token on the windows from a Friday.
Init ==
    /\ \/ /\ config \in RejectedConfigs
          /\ token = "token"
       \/ /\ \E s \in StartDays, n \in 0 .. MaxSpan, w \in BOOLEAN :
                config = [DefaultConfig EXCEPT
                            !.start_date = s, !.end_date = s + n - 1,
                            !.weekend_activity = w]
          /\ token = "token"
       \/ /\ \E lo \in CommitRange, hi \in CommitRange,
                p \in Patterns, w \in BOOLEAN :
                config = [DefaultConfig EXCEPT
                            !.start_date = FirstStart,
                            !.end_date = FirstStart + 1,
                            !.min_commits_per_day = lo,
                            !.max_commits_per_day = hi,
                            !.activity_pattern = p,
                            !.weekend_activity = w]
          /\ token = "token"
       \/ /\ \E n \in 0 .. MaxSpan, ap \in BOOLEAN :
                config = [DefaultConfig EXCEPT
                            !.start_date = FirstStart,
                            !.end_date = FirstStart + n - 1,
                            !.auto_push = ap]
          /\ token \in {NoToken, "token"}
    /\ pc = "entry"
    /\ outcome = "none"
    /\ push_result = "none"
    /\ current_date = None
    /\ commits_count = 0
    /\ i = 0
    /\ total_commits = 0
    /\ days_processed = 0
    /\ index = {}
    /\ files = {}
    /\ last = None
    /\ calls = 0
    /\ faults = 0
    /\ planned = 0
    /\ clamped_sum = 0
    /\ active_days = 0
    /\ attempts = NoAttempts
    /\ day_log = None
    /\ repeats = 0
    /\ pushes = 0

\* ------------------------------------------------------ schedule generator
\* generate_activity_pattern: the values random.randint can return
RawCounts(pattern_type, day) ==
    IF pattern_type = "random" THEN 1 .. 10
    ELSE IF pattern_type = "weekday"
         THEN IF weekday(day) < FirstWeekendDay THEN 3 .. 10 ELSE 1 .. 5
    ELSE IF pattern_type = "consistent" THEN 2 .. 5
    ELSE 1 .. 5

\* fault variant: the lower limit is not applied
ClampUpperOnly(c, lo, hi) == Min(c, hi)

\* commits_count = max(min_commits, min(commits_count, max_commits))
Clamp(c, lo, hi) == Max(lo, Min(c, hi))

\* fault variant: only Sunday counts as the weekend
SkipDaySundayOnly(weekend_activity, day) ==
    ~weekend_activity /\ weekday(day) > FirstWeekendDay

\* if not weekend_activity and current_date.weekday() >= 5
SkipDay(weekend_activity, day) ==
    ~weekend_activity /\ weekday(day) >= FirstWeekendDay

\* random.choice(commit_messages) if commit_messages else "Update"
Messages(commit_messages) ==
    IF commit_messages # <<>>
    THEN {commit_messages[k] : k \in DOMAIN commit_messages}
    ELSE {"Update"}

\* the (hour, minute, second) draws, sampled at the ends of their ranges
TimesOfDay == {<<HourLo, 0, 0>>, <<HourHi, MinuteHi, SecondHi>>}

\* fault variant: failed calls are counted too
TallyAlways(total, ret) == total + 1

\* if make_commit(...): total_commits += 1
Tally(total, ret) == IF ret THEN total + 1 ELSE total

\* fault variant: a failed intent is tried again
NextIRetry(idx, ret) == IF ret THEN idx + 1 ELSE idx

\* for i in range(commits_count): the next index, whatever make_commit returned
NextI(idx, ret) == idx + 1

\* ----------------------------------------------------------- commit applier
\* the wall clock when a commit runs: long after the window
WallClocks ==
    {DateTime(FirstStart + MaxSpan + 30, 3, 4, 5, 678),
     DateTime(FirstStart + MaxSpan + 400, 23, 59, 59, 0)}

\* file_name = f"activity_{random.randint(1000, 9999)}.txt".  File names are
\* interchangeable, so a draw is either the name of a file already in
\* activity/ or a new one, and the least unused number stands for every new one.
NameChoices(fs) ==
    fs \cup (IF NameLo + Cardinality(fs) <= NameHi
             THEN {NameLo + Cardinality(fs)} ELSE {})

\* where a make_commit call ends: an exception from Repo(), from
\* create_random_file, from index.add, a failed git commit, or success
Stages == {"repo", "file", "add", "commit", "ok"}

\* fault variant: only the author date is pinned
CommitDatesAuthorOnly(date, now) ==
    IF date # None
    THEN [author_date |-> GitDate(strftime(date)), committer_date |-> now]
    ELSE [author_date |-> now, committer_date |-> now]

\* the dates git records: GIT_AUTHOR_DATE, GIT_COMMITTER_DATE and --date are
\* all date_str when a date is given, else the commit is made at the wall clock
CommitDates(date, now) ==
    IF date # None
    THEN [author_date |-> GitDate(strftime(date)),
          committer_date |-> GitDate(strftime(date))]
    ELSE [author_date |-> now, committer_date |-> now]

\* the file names create_random_file returned in a call ending at `stage`
Yielded(stage, name) ==
    IF stage \in {"add", "commit", "ok"} THEN {name} ELSE {}

\* git commit -m message: every staged path is recorded, with the dates given
Commit(message, dates, staged) ==
    [message |-> message, author_date |-> dates.author_date,
     committer_date |-> dates.committer_date, paths |-> staged]

\* the messages make_commit picks from when it is given none
DefaultMessages ==
    {"Update activity", "Add activity file", "Update documentation",
     "Fix minor issues", "Code improvements"}

\* make_commit(repo_path, message, date), ending at `stage` with the file
\* name `name` drawn; returns stage = "ok".  git reads the wall clock when it
\* records the commit.
make_commit(message, date, stage, name) ==
    /\ files' = IF stage \in {"add", "commit", "ok"}
                THEN files \cup {name} ELSE files
    /\ index' = IF stage = "commit" THEN index \cup {name}
                ELSE IF stage = "ok" THEN {}
                ELSE index
    /\ \E now \in IF stage = "ok" THEN WallClocks ELSE {None},
          msg \in IF message # "" THEN {message} ELSE DefaultMessages :
          last' = [date |-> date, ret |-> stage = "ok",
                   yielded |-> Yielded(stage, name),
                   commit |-> IF stage = "ok"
                              THEN Commit(msg, CommitDates(date, now),
                                          index \cup {name})
                              ELSE None]

\* fault variant: a failed push is tried again
PcAfterPushRetry(ok) == IF ok THEN "done" ELSE "push"

\* push_changes is called once; the run ends whatever it returns
PcAfterPush(ok) == "done"

\* ------------------------------------------------ fill_contributions_graph
\* the checks before the loop (enabled, repository path, date parsing)
Enter ==
    /\ pc = "entry"
    /\ IF ~config.enabled
       THEN pc' = "returned" /\ outcome' = "disabled"
            /\ UNCHANGED current_date
       ELSE IF ~config.path_exists \/ ~config.is_git
       THEN pc' = "returned" /\ outcome' = "precondition_error"
            /\ UNCHANGED current_date
       ELSE IF ~config.dates_valid
       THEN pc' = "returned" /\ outcome' = "date_error"
            /\ UNCHANGED current_date
       ELSE pc' = "while" /\ outcome' = "started"
            /\ current_date' = parse_date(config.start_date)
    /\ UNCHANGED <<config, token, push_result, commits_count, i,
                   total_commits, days_processed, repoVars, ghostVars,
                   pushes>>

InWindow == DateLeq(current_date, parse_date(config.end_date))

\* a weekend day with weekend_activity off: advance without commits
WhileSkip ==
    /\ pc = "while" /\ InWindow
    /\ SkipDay(config.weekend_activity, current_date)
    /\ current_date' = AddDay(current_date)
    /\ day_log' = [day |-> current_date, intents |-> 0]
    /\ UNCHANGED <<config, token, pc, outcome, push_result, commits_count,
                   i, total_commits, days_processed, repoVars, last, calls,
                   faults, planned, clamped_sum, active_days, attempts,
                   repeats, pushes>>

\* the commit count of the day
WhileDay ==
    /\ pc = "while" /\ InWindow
    /\ ~SkipDay(config.weekend_activity, current_date)
    /\ \E raw \in RawCounts(config.activity_pattern, current_date) :
          commits_count' = Clamp(raw, config.min_commits_per_day,
                                 config.max_commits_per_day)
    /\ i' = 0
    /\ day_log' = None
    /\ pc' = "for"
    /\ planned' = planned + Max(0, commits_count')
    /\ clamped_sum' = clamped_sum + commits_count'
    /\ attempts' = NoAttempts
    /\ UNCHANGED <<config, token, outcome, push_result, current_date,
                   total_commits, days_processed, repoVars, last, calls, faults,
                   active_days, repeats, pushes>>

\* one iteration of the loop over the commits of the day
ForBody ==
    /\ pc = "for" /\ i < commits_count
    /\ \E t \in TimesOfDay, stage \in Stages,
          message \in Messages(config.commit_messages) :
          LET commit_date == Replace(current_date, t[1], t[2], t[3])
              ret == stage = "ok"
          IN /\ ~ret => faults < MaxFaults
             /\ \E name \in NameChoices(files) :
                   /\ Yielded(stage, name) \cap files # {}
                         => repeats < MaxRepeats
                   /\ make_commit(message, commit_date, stage, name)
                   /\ repeats' = IF Yielded(stage, name) \cap files # {}
                                 THEN repeats + 1 ELSE repeats
             /\ total_commits' = Tally(total_commits, ret)
             /\ faults' = IF ret THEN faults ELSE faults + 1
             /\ i' = NextI(i, ret)
             /\ attempts' = [attempts EXCEPT ![i] = @ + 1]
    /\ calls' = calls + 1
    /\ active_days' = IF i = 0 /\ attempts[0] = 0
                      THEN active_days + 1 ELSE active_days
    /\ UNCHANGED <<config, token, pc, outcome, push_result, current_date,
                   commits_count, days_processed, planned, clamped_sum,
                   day_log, pushes>>

\* the day is done
ForExit ==
    /\ pc = "for" /\ i >= commits_count
    /\ days_processed' = days_processed + 1
    /\ current_date' = AddDay(current_date)
    /\ day_log' = [day |-> current_date, intents |-> i]
    /\ pc' = "while"
    /\ UNCHANGED <<config, token, outcome, push_result, commits_count, i,
                   total_commits, repoVars, last, calls, faults, planned,
                   clamped_sum,
                   active_days, attempts, repeats, pushes>>

\* the loop ends and the summary is printed
WhileExit ==
    /\ pc = "while" /\ ~InWindow
    /\ outcome' = "completed"
    /\ pc' = "push"
    /\ UNCHANGED <<config, token, push_result, loopVars, repoVars, ghostVars,
                   pushes>>

\* if auto_push and token: push_changes(repo_path, token), which may fail
Push ==
    /\ pc = "push"
    /\ config.auto_push /\ token # NoToken
    /\ \E ok \in BOOLEAN :
          /\ push_result' = IF ok THEN "pushed" ELSE "push_failed"
          /\ pc' = PcAfterPush(ok)
    /\ pushes' = pushes + 1
    /\ UNCHANGED <<config, token, outcome, loopVars, repoVars, ghostVars>>

\* no push: auto_push off, or no token (a warning is printed)
NoPush ==
    /\ pc = "push"
    /\ ~(config.auto_push /\ token # NoToken)
    /\ push_result' = IF config.auto_push THEN "skipped_no_token"
                      ELSE "off"
    /\ pc' = "done"
    /\ UNCHANGED <<config, token, outcome, loopVars, repoVars, ghostVars,
                   pushes>>

Next ==
    \/ Enter
    \/ WhileSkip
    \/ WhileDay
    \/ ForBody
    \/ ForExit
    \/ WhileExit
    \/ Push
    \/ NoPush

Spec == Init /\ [][Next]_vars

\* ------------------------------------------------------------ properties
\* the loop over the window has ended
Finished == pc \in {"push", "done"}

IsWeekend(day) == weekday(day) \in {5, 6}

min_commits == config.min_commits_per_day
max_commits == config.max_commits_per_day

\* C1: a commit recorded by a make_commit call of the loop has its author
\* date and its committer date equal to the date passed in, on the calendar
\* day being processed, whatever the wall clock when it is recorded.
C1_DatesPinned ==
    (last # None /\ last.ret) =>
        /\ last.commit.author_date = last.date
        /\ last.commit.committer_date = last.date
        /\ (pc = "for" /\ i > 0) => last.date.day = current_date.day

C1_Witness ==
    /\ last # None /\ last.ret
    /\ pc = "for" /\ i > 0
    /\ \A now \in WallClocks : now # last.date

\* the day the loop last left: every day has a count within the limits unless
\* it was skipped, and a count of 0 only if it is a weekend day with
\* weekend_activity off
DayWithinLimits ==
    day_log # None =>
        LET n == day_log.intents
            skipped == IsWeekend(day_log.day) /\ ~config.weekend_activity
        IN /\ n = 0 => skipped
           /\ ~skipped => (min_commits <= n /\ n <= max_commits)

\* C2 as stated: for any integer limits, every day of the window gets
\* min_commits_per_day <= count <= max_commits_per_day intents, and 0 only on
\* a skipped weekend day.
C2_AnyLimits == DayWithinLimits

\* C2, amended: the same when min_commits_per_day <= max_commits_per_day and
\* max_commits_per_day >= 1.
C2_OrderedLimits ==
    (min_commits <= max_commits /\ max_commits >= 1) => DayWithinLimits

C2_Witness ==
    /\ day_log # None
    /\ min_commits < max_commits /\ max_commits >= 1
    /\ day_log.intents = max_commits
    /\ ~IsWeekend(day_log.day)

\* the days of the window that are not skipped
ExpectedActiveDays ==
    Cardinality({d \in config.start_date .. config.end_date :
                   config.weekend_activity \/ ~IsWeekend(parse_date(d))})

NoWeekendIntent ==
    (last # None /\ ~config.weekend_activity) => ~IsWeekend(last.date)

\* C3 as stated: for every window with start_date <= end_date, the days with
\* at least one intent are the days of the window, less the Saturdays and
\* Sundays when weekend_activity is off, and then no intent is dated on one.
C3_EveryWindow ==
    /\ (Finished /\ config.start_date <= config.end_date)
          => active_days = ExpectedActiveDays
    /\ NoWeekendIntent

\* C3, amended: the same when min_commits_per_day >= 1 or
\* max_commits_per_day >= 1.
C3_PositiveLimit ==
    /\ (Finished /\ config.start_date <= config.end_date
          /\ (min_commits >= 1 \/ max_commits >= 1))
          => active_days = ExpectedActiveDays
    /\ NoWeekendIntent

C3_Witness ==
    /\ Finished /\ ~config.weekend_activity
    /\ active_days >= 1
    /\ active_days < config.end_date - config.start_date + 1

\* C4 as stated: at the end of a run, also one in which make_commit calls
\* failed, total_commits is the sum over the processed days of the day's
\* commit count.
C4_TotalIsSum == Finished => total_commits = clamped_sum

\* C4, amended: at the end of a run total_commits is the sum over the
\* processed days of the number of intents of the day (its commit count, or 0
\* when that is negative) less the number of make_commit calls that
\* returned False.
C4_TotalIsSuccesses == Finished => total_commits = planned - faults

C4_Witness == Finished /\ faults > 0 /\ total_commits > 0

\* C5: each make_commit call has a date not before that of the call before it.
C5_NonDecreasing ==
    [][(calls' = calls + 1 /\ last # None)
          => DateLeq(last.date, last'.date)]_vars

\* C6: every intent is attempted exactly once: no intent is attempted twice,
\* a day ends with every one of its intents attempted, also after a failed
\* one, and the run ends with as many calls as intents, past the window.
C6_AttemptedOnce ==
    /\ \A j \in DOMAIN attempts : attempts[j] <= 1
    /\ (pc = "for" /\ i >= commits_count)
          => \A j \in 0 .. commits_count - 1 : attempts[j] = 1
    /\ Finished
          => /\ calls = planned
             /\ outcome = "completed"
             /\ current_date.day > config.end_date

C6_Witness ==
    /\ Finished /\ faults > 0 /\ last.ret
    /\ days_processed > 1 /\ calls > 2

\* C7: an empty window generates no intent and ends as a configuration
\* error: no closing summary, no push.
C7_EmptyWindowRejected ==
    (config.start_date > config.end_date /\ pc # "entry")
        => /\ calls = 0
           /\ outcome # "completed"
           /\ pushes = 0

\* C8: push_changes is called at most once, only once the loop has ended with
\* every intent attempted, and after it no make_commit and no second push.
C8_PushOnceAtEnd ==
    /\ [](/\ pushes <= 1
          /\ pushes > 0 => (pc = "done" /\ ~InWindow /\ calls = planned))
    /\ [][pushes > 0 => (calls' = calls /\ pushes' = pushes)]_vars

C8_Witness ==
    /\ pushes = 1 /\ push_result = "push_failed" /\ pc = "done"
    /\ calls > 0

\* C9: a commit recorded by a successful make_commit holds exactly one
\* changed path, the file that call created.
C9_OnePath == (last # None /\ last.ret) => last.commit.paths = last.yielded

\* C10: the file name a make_commit call draws is none that an earlier call
\* of the run drew.
C10_FreshName ==
    [][calls' = calls + 1 => last'.yielded \cap files = {}]_vars

====
